---- MODULE Spec2Model ----
(***************************************************************************)
(* Model of the scene item list of libobs/obs-scene.c: one scene, its      *)
(* doubly-linked list of scene items, the recursive scene mutex, the item  *)
(* reference counts and the item_add / item_remove signals.  Every API     *)
(* call is a sequence of steps of the calling thread: the reads made       *)
(* before the mutex is taken, the critical section, the unlock and what    *)
(* follows it.                                                             *)
(***************************************************************************)
EXTENDS Integers, Sequences, FiniteSets, TLC

\* ---------------------------------------------------------------- bounds
MaxItems == 3
MaxHold == 1

\* ------------------------------------------------------------- constants
NULL == 0
TheScene == 1

Items == 1..MaxItems
MainThread == "main"
ReorderThread == "reorder"
Threads == {MainThread, ReorderThread}
NoThread == "nobody"
NoSource == "none"
DefaultSource == "camera"
Sources == {"camera", "window"}
Movements == {"ORDER_MOVE_UP", "ORDER_MOVE_DOWN", "ORDER_MOVE_TOP", "ORDER_MOVE_BOTTOM"}

VARIABLES
    first_item,   \* scene->first_item
    next,         \* item->next
    prev,         \* item->prev
    parent,       \* item->parent (NULL or TheScene)
    removed,      \* item->removed
    ref,          \* item->ref
    visible,      \* item->visible
    scale,        \* item->scale
    mem,          \* allocation state of the item: "unalloc", "live", "freed"
    mutex,        \* scene->mutex (recursive): [owner, depth]
    signals,      \* the signals emitted on the scene's source, in order
    pc,           \* position of each thread in the call it is running
    frame,        \* the locals of the call each thread is running
    hold,         \* references each thread took with obs_sceneitem_addref
    fault,        \* "none", or how the process died
    source,       \* item->source: the name of the source, or NoSource
    rot,          \* item->rot
    pos,          \* item->pos
    origin,       \* item->origin
    removed_sources, \* the sources for which obs_source_removed() is true
    records,      \* the "items" array of the settings scene_save last wrote
    original,     \* what the saved scene held when it was saved
    returned,     \* item: the caller of obs_scene_add has not released its result
    inner_mutex,  \* the mutex of a second scene, whose source an item may have
    ca,           \* struct coreaudio_data of the CoreAudio capture source
    reconnect,    \* where each reconnect thread that was created is
    apc           \* where the callers of the CoreAudio source are

heap == <<first_item, next, prev, parent, removed, ref, visible, scale, mem>>
aside == <<inner_mutex, ca, reconnect, apc>>
ext == <<source, rot, pos, origin, removed_sources, records, original, returned,
         inner_mutex, ca, reconnect, apc>>
vars == <<first_item, next, prev, parent, removed, ref, visible, scale, mem,
          mutex, signals, pc, frame, hold, fault,
          source, rot, pos, origin, removed_sources, records, original, returned,
          inner_mutex, ca, reconnect, apc>>

\* ------------------------------------------------------------ the list
RECURSIVE Walk(_, _, _)
Walk(nx, n, k) ==
    IF n = NULL \/ k = 0 THEN <<>> ELSE <<n>> \o Walk(nx, nx[n], k - 1)

\* The items met by following next from the head (cut after MaxItems + 1).
ListOf(fi, nx) == Walk(nx, fi, MaxItems + 1)
List == ListOf(first_item, next)

Range(s) == {s[k] : k \in 1..Len(s)}
Linked(i) == i \in Range(List)
IndexOf(s, x) == CHOOSE k \in 1..Len(s) : s[k] = x
Without(s, x) == SelectSeq(s, LAMBDA y : y # x)

\* ----------------------------------------------------------- the mutex
CanLock(t) == mutex.owner \in {NoThread, t}
Locked(t) == [owner |-> t, depth |-> mutex.depth + 1]
Unlocked == IF mutex.depth <= 1 THEN [owner |-> NoThread, depth |-> 0]
            ELSE [owner |-> mutex.owner, depth |-> mutex.depth - 1]

NoFrame == [op |-> "none", item |-> NULL, scene |-> NULL, movement |-> "none",
            pre |-> <<>>, early |-> FALSE,
            next |-> NULL,      \* the next pointer a walk saved before it acts
            seen |-> <<>>,      \* the items a walk handed on, in order
            flags |-> <<>>,     \* what item->removed was for each of them
            more |-> TRUE,      \* the callback's answer
            name |-> NoSource,  \* the name looked for
            idx |-> 0,          \* the index of the record being loaded
            recs |-> <<>>,      \* the records being loaded, or saved so far
            warned |-> 0,       \* the warnings logged
            refs |-> <<>>]      \* every item's ref when a walk took the mutex

\* The list as the call finds it when it takes the mutex.
Snapshot == List

Running == fault = "none"
Idle(t) == Running /\ pc[t] = "idle"
Live(i) == i # NULL /\ mem[i] = "live"

\* The item is allocated by an obs_scene_add that has not yet linked it and
\* released the mutex: no other call can have its pointer.
BeingAdded(i) ==
    \E t \in Threads : /\ frame[t].op = "add" /\ frame[t].item = i
                        /\ pc[t] \in {"add_lock", "add_link", "add_unlock"}

\* What a caller of obs_sceneitem_* may pass: an item that is in reach and
\* not freed at the time of the call.
Valid(i) == Live(i) /\ ~BeingAdded(i)

\* How a failed assert(p != NULL) followed by a use of p ends: the assertion
\* aborts, or (NDEBUG) the null pointer is dereferenced.
AssertOrDeref == {"assert", "null"}

\* The ways a step may end, given how it dies (f) or "none".
Outcomes(f) == IF f = "assert" THEN AssertOrDeref ELSE {f}

\* The CoreAudio source before coreaudio_create: no struct coreaudio_data yet.
\* The threads pthread_create may start for it, and the threads that call
\* into it: the one that creates and destroys the source, and CoreAudio's,
\* which delivers the property notifications.
MaxReconnect == 2
ReconnectThreads == 1..MaxReconnect
Reconnector(r) == <<"reconnect", r>>
OwnerCaller == <<"owner", 0>>
Notifier == <<"notify", 0>>
Callers == {OwnerCaller, Notifier}
AudioProcs == Callers \cup {Reconnector(r) : r \in ReconnectThreads}

\* struct coreaudio_data (26-44) before coreaudio_create: hooks is whether
\* disconnection_callback is registered as a property listener (363),
\* reconnect_thread the thread pthread_create stored last (312).
NoDevice ==
    [mem |-> "unalloc", reconnecting |-> FALSE, au_initialized |-> FALSE,
     exit_event |-> FALSE, hooks |-> FALSE, reconnect_thread |-> 0]

Init ==
    /\ first_item = NULL
    /\ next = [i \in Items |-> NULL]
    /\ prev = [i \in Items |-> NULL]
    /\ parent = [i \in Items |-> NULL]
    /\ removed = [i \in Items |-> FALSE]
    /\ ref = [i \in Items |-> 0]
    /\ visible = [i \in Items |-> FALSE]
    /\ scale = [i \in Items |-> <<0, 0>>]
    /\ mem = [i \in Items |-> "unalloc"]
    /\ mutex = [owner |-> NoThread, depth |-> 0]
    /\ signals = <<>>
    /\ pc = [t \in Threads |-> "idle"]
    /\ frame = [t \in Threads |-> NoFrame]
    /\ hold = [t \in Threads |-> [i \in Items |-> 0]]
    /\ fault = "none"
    /\ source = [i \in Items |-> NoSource]
    /\ rot = [i \in Items |-> 0]
    /\ pos = [i \in Items |-> <<0, 0>>]
    /\ origin = [i \in Items |-> <<0, 0>>]
    /\ removed_sources = {}
    /\ records = <<>>
    /\ original = <<>>
    /\ returned = [i \in Items |-> FALSE]
    /\ inner_mutex = [owner |-> NoThread, depth |-> 0]
    /\ ca = NoDevice
    /\ reconnect = [r \in ReconnectThreads |-> "none"]
    /\ apc = [p \in AudioProcs |-> "idle"]

\* ------------------------------------------------ obs_scene_add (381-427)
NewItem == CHOOSE i \in Items : mem[i] = "unalloc" /\ \A j \in Items : mem[j] = "unalloc" => i <= j

\* item = bzalloc(...); source, visible, parent, ref, scale (395-400)
NewVisible == TRUE
NewRef == 1
NewScale == <<1, 1>>
NewParent(scene) == scene

AddBeginWith(t, src) ==
    /\ Idle(t)
    /\ \E i \in Items : mem[i] = "unalloc"
    /\ LET item == NewItem IN
        /\ mem' = [mem EXCEPT ![item] = "live"]
        /\ next' = [next EXCEPT ![item] = NULL]
        /\ prev' = [prev EXCEPT ![item] = NULL]
        /\ removed' = [removed EXCEPT ![item] = FALSE]
        /\ visible' = [visible EXCEPT ![item] = NewVisible]
        /\ parent' = [parent EXCEPT ![item] = NewParent(TheScene)]
        /\ ref' = [ref EXCEPT ![item] = NewRef]
        /\ scale' = [scale EXCEPT ![item] = NewScale]
        /\ source' = [source EXCEPT ![item] = src]
        /\ rot' = [rot EXCEPT ![item] = 0]
        /\ pos' = [pos EXCEPT ![item] = <<0, 0>>]
        /\ origin' = [origin EXCEPT ![item] = <<0, 0>>]
        /\ returned' = [returned EXCEPT ![item] = TRUE]
        /\ frame' = [frame EXCEPT ![t] = [NoFrame EXCEPT !.op = "add", !.item = item,
                                            !.scene = TheScene]]
    /\ pc' = [pc EXCEPT ![t] = "add_lock"]
    /\ UNCHANGED <<first_item, mutex, signals, hold, fault>>
    /\ UNCHANGED <<removed_sources, records, original>>
    /\ UNCHANGED aside

\* obs_scene_add(scene, source) with the one source a scene is built from when
\* the sources do not matter.
AddBegin(t) == AddBeginWith(t, DefaultSource)

\* pthread_mutex_lock(&scene->mutex) (405)
AddLock(t) ==
    /\ Running /\ pc[t] = "add_lock"
    /\ CanLock(t)
    /\ mutex' = Locked(t)
    /\ frame' = [frame EXCEPT ![t].pre = Snapshot]
    /\ pc' = [pc EXCEPT ![t] = "add_link"]
    /\ UNCHANGED <<heap, signals, hold, fault>>
    /\ UNCHANGED ext

Last(s) == s[Len(s)]

\* The node the walk "while (last->next) last = last->next" over the list l
\* stops at (407-412).
AddLastWrong(l) == l[1]
AddLast(l) == l[Len(l)]

\* last = scene->first_item; link the item at the head or after last (407-416)
AddLink(t) ==
    /\ Running /\ pc[t] = "add_link"
    /\ LET item == frame[t].item
           l == List
       IN IF \E k \in 1..Len(l) : ~Live(l[k])
          THEN /\ fault' = "uaf"
               /\ UNCHANGED <<heap, pc>>
          ELSE IF Len(l) > MaxItems
          THEN /\ fault' = "hang"
               /\ UNCHANGED <<heap, pc>>
          ELSE /\ IF l = <<>>
                  THEN /\ first_item' = item
                       /\ UNCHANGED <<next, prev>>
                  ELSE /\ next' = [next EXCEPT ![AddLast(l)] = item]
                       /\ prev' = [prev EXCEPT ![item] = AddLast(l)]
                       /\ UNCHANGED first_item
               /\ pc' = [pc EXCEPT ![t] = "add_unlock"]
               /\ UNCHANGED <<parent, removed, ref, visible, scale, mem, fault>>
    /\ UNCHANGED <<mutex, signals, frame, hold>>
    /\ UNCHANGED ext

\* pthread_mutex_unlock(&scene->mutex) (418)
AddUnlock(t) ==
    /\ Running /\ pc[t] = "add_unlock"
    /\ mutex' = Unlocked
    /\ pc' = [pc EXCEPT ![t] = "add_signal"]
    /\ UNCHANGED <<heap, signals, frame, hold, fault>>
    /\ UNCHANGED ext

Signal(name, scene, item) == [name |-> name, scene |-> scene, item |-> item]

\* signal_handler_signal(..., "item_add", &params); return item (420-426)
AddSignal(t) ==
    /\ Running /\ pc[t] = "add_signal"
    /\ signals' = Append(signals, Signal("item_add", frame[t].scene, frame[t].item))
    /\ pc' = [pc EXCEPT ![t] = "ret"]
    /\ UNCHANGED <<heap, mutex, frame, hold, fault>>
    /\ UNCHANGED ext

\* The caller takes the result and goes on.
Return(t) ==
    /\ Running /\ pc[t] = "ret"
    /\ pc' = [pc EXCEPT ![t] = "idle"]
    /\ frame' = [frame EXCEPT ![t] = NoFrame]
    /\ UNCHANGED <<heap, mutex, signals, hold, fault>>
    /\ UNCHANGED ext

\* ------------------------------------------- detach_sceneitem (124-135)
\* How detach_sceneitem(item) dies, or "none".
DetachFault(item) ==
    IF ~Live(item) THEN "uaf"
    ELSE IF prev[item] # NULL /\ ~Live(prev[item]) THEN "uaf"
    ELSE IF prev[item] = NULL /\ parent[item] = NULL THEN "null"
    ELSE IF next[item] # NULL /\ ~Live(next[item]) THEN "uaf"
    ELSE "none"

\* if (item->prev) item->prev->next = item->next;
DetachNext(item) ==
    IF prev[item] # NULL THEN [next EXCEPT ![prev[item]] = next[item]] ELSE next

\* else item->parent->first_item = item->next;
DetachFirst(item) ==
    IF prev[item] # NULL THEN first_item ELSE next[item]

\* if (item->next) item->next->prev = item->prev;
DetachPrev(item) ==
    LET nx == DetachNext(item)
    IN IF nx[item] # NULL THEN [prev EXCEPT ![nx[item]] = prev[item]] ELSE prev

\* item->parent = NULL;
DetachParent(item) == [parent EXCEPT ![item] = NULL]

\* ------------------------------------------- attach_sceneitem (137-153)
\* item->prev = prev; and, with a prev, prev->next->prev = item
AttachPrev(item, p) ==
    LET pv == [prev EXCEPT ![item] = p]
        nx == [next EXCEPT ![item] = next[p]]
    IN IF p # NULL /\ nx[p] # NULL THEN [pv EXCEPT ![nx[p]] = item] ELSE pv

\* item->next = prev->next; prev->next = item;  or item->next = first_item
AttachNext(item, p) ==
    IF p # NULL
    THEN [[next EXCEPT ![item] = next[p]] EXCEPT ![p] = item]
    ELSE [next EXCEPT ![item] = first_item]

\* item->parent->first_item = item, when there is no prev
AttachFirst(item, p) == IF p # NULL THEN first_item ELSE item

\* How attach_sceneitem(item, prev) dies, or "none".
AttachFault(item, p) ==
    IF ~Live(item) THEN "uaf"
    ELSE IF p # NULL
    THEN IF ~Live(p) \/ (next[p] # NULL /\ ~Live(next[p])) THEN "uaf" ELSE "none"
    ELSE IF parent[item] = NULL THEN "assert" ELSE "none"

\* ------------------------- obs_sceneitem_addref / release (438-451)
\* os_atomic_dec_long(&item->ref) == 0 -> obs_sceneitem_destroy(item)
RefAfterRelease(item) == [ref EXCEPT ![item] = @ - 1]
MemAfterReleaseEarly(item) ==
    IF ref[item] - 1 <= 1 THEN [mem EXCEPT ![item] = "freed"] ELSE mem
MemAfterRelease(item) ==
    IF ref[item] - 1 = 0 THEN [mem EXCEPT ![item] = "freed"] ELSE mem

\* The references the threads hold in all.
RECURSIVE Sum(_, _)
Sum(f, S) == IF S = {} THEN 0 ELSE LET x == CHOOSE x \in S : TRUE IN f[x] + Sum(f, S \ {x})
Held == Sum([p \in Threads \X Items |-> hold[p[1]][p[2]]], Threads \X Items)

AddRef(t, item) ==
    /\ Idle(t) /\ Valid(item)
    /\ Held < MaxHold
    /\ ref' = [ref EXCEPT ![item] = @ + 1]
    /\ hold' = [hold EXCEPT ![t][item] = @ + 1]
    /\ UNCHANGED <<first_item, next, prev, parent, removed, visible, scale, mem,
                   mutex, signals, pc, frame, fault>>
    /\ UNCHANGED ext

Release(t, item) ==
    /\ Idle(t)
    /\ hold[t][item] > 0
    /\ hold' = [hold EXCEPT ![t][item] = @ - 1]
    /\ IF Live(item)
       THEN /\ ref' = RefAfterRelease(item)
            /\ mem' = MemAfterRelease(item)
            /\ UNCHANGED fault
       ELSE /\ fault' = "uaf"
            /\ UNCHANGED <<ref, mem>>
    /\ UNCHANGED <<first_item, next, prev, parent, removed, visible, scale,
                   mutex, signals, pc, frame>>
    /\ UNCHANGED ext

\* ------------------------------------- obs_sceneitem_remove (453-483)
\* scene = item->parent; (457-460)
RemoveBegin(t, item) ==
    /\ Idle(t) /\ Valid(item)
    /\ frame' = [frame EXCEPT ![t] = [NoFrame EXCEPT !.op = "remove", !.item = item,
                                        !.scene = parent[item]]]
    /\ pc' = [pc EXCEPT ![t] = "rm_lock"]
    /\ UNCHANGED <<heap, mutex, signals, hold, fault>>
    /\ UNCHANGED ext

\* if (scene) pthread_mutex_lock(&scene->mutex); (462-463)
RemoveLock(t) ==
    /\ Running /\ pc[t] = "rm_lock"
    /\ IF frame[t].scene # NULL
       THEN CanLock(t) /\ mutex' = Locked(t)
       ELSE UNCHANGED mutex
    /\ frame' = [frame EXCEPT ![t].pre = Snapshot]
    /\ pc' = [pc EXCEPT ![t] = "rm_body"]
    /\ UNCHANGED <<heap, signals, hold, fault>>
    /\ UNCHANGED ext

\* How the rest of obs_sceneitem_remove dies once item->removed is set, or "none":
\* assert(scene != NULL) and scene->source (473-475), item->parent->source in
\* signal_item_remove (34), detach_sceneitem (478).
RemoveFault(scene, item) ==
    IF scene = NULL THEN "assert"
    ELSE IF parent[item] = NULL THEN "null"
    ELSE DetachFault(item)

\* if (item->removed) { unlock; return; }  item->removed = true; ...
\* signal_item_remove(item); detach_sceneitem(item); (465-478)
RemoveBody(t) ==
    /\ Running /\ pc[t] = "rm_body"
    /\ LET item == frame[t].item
           scene == frame[t].scene
       IN IF ~Live(item)
          THEN /\ fault' = "uaf"
               /\ UNCHANGED <<heap, mutex, signals, pc, frame>>
          ELSE IF removed[item]
          THEN /\ mutex' = IF scene # NULL THEN Unlocked ELSE mutex
               /\ pc' = [pc EXCEPT ![t] = "ret"]
               /\ frame' = [frame EXCEPT ![t].early = TRUE]
               /\ UNCHANGED <<heap, signals, fault>>
          ELSE /\ removed' = [removed EXCEPT ![item] = TRUE]
               /\ fault' \in Outcomes(RemoveFault(scene, item))
               /\ IF scene # NULL /\ parent[item] # NULL
                  THEN signals' = Append(signals, Signal("item_remove", parent[item], item))
                  ELSE UNCHANGED signals
               /\ IF RemoveFault(scene, item) = "none"
                  THEN /\ next' = DetachNext(item)
                       /\ first_item' = DetachFirst(item)
                       /\ prev' = DetachPrev(item)
                       /\ parent' = DetachParent(item)
                       /\ pc' = [pc EXCEPT ![t] = "rm_unlock"]
                  ELSE UNCHANGED <<next, first_item, prev, parent, pc>>
               /\ UNCHANGED <<ref, visible, scale, mem, mutex, frame>>
    /\ UNCHANGED <<hold>>
    /\ UNCHANGED ext

\* pthread_mutex_unlock(&scene->mutex); (480)
RemoveUnlock(t) ==
    /\ Running /\ pc[t] = "rm_unlock"
    /\ mutex' = Unlocked
    /\ pc' = [pc EXCEPT ![t] = "rm_release"]
    /\ UNCHANGED <<heap, signals, frame, hold, fault>>
    /\ UNCHANGED ext

\* obs_sceneitem_release(item); (482)
RemoveRelease(t) ==
    /\ Running /\ pc[t] = "rm_release"
    /\ LET item == frame[t].item
       IN IF Live(item)
          THEN /\ ref' = RefAfterRelease(item)
               /\ mem' = MemAfterRelease(item)
               /\ pc' = [pc EXCEPT ![t] = "ret"]
               /\ UNCHANGED fault
          ELSE /\ fault' = "uaf"
               /\ UNCHANGED <<ref, mem, pc>>
    /\ UNCHANGED <<first_item, next, prev, parent, removed, visible, scale,
                   mutex, signals, frame, hold>>
    /\ UNCHANGED ext

\* ----------------------------------- obs_sceneitem_setorder (519-553)
\* scene = item->parent; obs_scene_addref(scene); (521-525)
SetorderBegin(t, item, movement) ==
    /\ Idle(t) /\ Valid(item)
    /\ frame' = [frame EXCEPT ![t] = [NoFrame EXCEPT !.op = "setorder", !.item = item,
                                        !.scene = parent[item], !.movement = movement]]
    /\ pc' = [pc EXCEPT ![t] = "so_lock"]
    /\ UNCHANGED <<heap, mutex, signals, hold, fault>>
    /\ UNCHANGED ext

\* pthread_mutex_lock(&scene->mutex); (526)
SetorderLock(t) ==
    /\ Running /\ pc[t] = "so_lock"
    /\ IF frame[t].scene = NULL
       THEN /\ fault' = "null"
            /\ UNCHANGED <<mutex, pc, frame>>
       ELSE /\ CanLock(t)
            /\ mutex' = Locked(t)
            /\ frame' = [frame EXCEPT ![t].pre = Snapshot]
            /\ pc' = [pc EXCEPT ![t] = "so_detach"]
            /\ UNCHANGED fault
    /\ UNCHANGED <<heap, signals, hold>>
    /\ UNCHANGED ext

\* detach_sceneitem(item); (528)
SetorderDetach(t) ==
    /\ Running /\ pc[t] = "so_detach"
    /\ LET item == frame[t].item
       IN /\ fault' = DetachFault(item)
          /\ IF DetachFault(item) = "none"
             THEN /\ next' = DetachNext(item)
                  /\ first_item' = DetachFirst(item)
                  /\ prev' = DetachPrev(item)
                  /\ parent' = DetachParent(item)
                  /\ pc' = [pc EXCEPT ![t] = "so_attach"]
             ELSE UNCHANGED <<next, first_item, prev, parent, pc>>
    /\ UNCHANGED <<removed, ref, visible, scale, mem, mutex, signals, frame, hold>>
    /\ UNCHANGED ext

\* The walk of ORDER_MOVE_TOP from item->next to the tail (537-543).
TopWalk(item) == Walk(next, next[item], MaxItems + 1)

\* The second argument of attach_sceneitem for each movement (530-549).
AttachTarget(item, movement) ==
    CASE movement = "ORDER_MOVE_UP" -> prev[item]
      [] movement = "ORDER_MOVE_DOWN" -> next[item]
      [] movement = "ORDER_MOVE_TOP" ->
            IF next[item] = NULL THEN prev[item] ELSE Last(TopWalk(item))
      [] movement = "ORDER_MOVE_BOTTOM" -> NULL

\* How the walk of ORDER_MOVE_TOP dies, or "none".
TargetFault(item, movement) ==
    IF movement = "ORDER_MOVE_TOP" /\ next[item] # NULL
    THEN IF \E k \in 1..Len(TopWalk(item)) : ~Live(TopWalk(item)[k]) THEN "uaf"
         ELSE IF Len(TopWalk(item)) > MaxItems THEN "hang"
         ELSE "none"
    ELSE "none"

\* attach_sceneitem(item, ...) for the movement (530-549)
SetorderAttach(t) ==
    /\ Running /\ pc[t] = "so_attach"
    /\ LET item == frame[t].item
           mv == frame[t].movement
           p == AttachTarget(item, mv)
           f == IF ~Live(item) THEN "uaf"
                ELSE IF TargetFault(item, mv) # "none" THEN TargetFault(item, mv)
                ELSE AttachFault(item, p)
       IN /\ fault' \in Outcomes(f)
          /\ IF f = "none"
             THEN /\ prev' = AttachPrev(item, p)
                  /\ next' = AttachNext(item, p)
                  /\ first_item' = AttachFirst(item, p)
                  /\ pc' = [pc EXCEPT ![t] = "so_unlock"]
             ELSE IF f = "assert"
             THEN /\ prev' = [prev EXCEPT ![item] = NULL]
                  /\ UNCHANGED <<next, first_item, pc>>
             ELSE UNCHANGED <<prev, next, first_item, pc>>
    /\ UNCHANGED <<parent, removed, ref, visible, scale, mem, mutex, signals, frame,
                   hold>>
    /\ UNCHANGED ext

\* pthread_mutex_unlock(&scene->mutex); obs_scene_release(scene); (551-552)
SetorderUnlock(t) ==
    /\ Running /\ pc[t] = "so_unlock"
    /\ mutex' = Unlocked
    /\ pc' = [pc EXCEPT ![t] = "ret"]
    /\ UNCHANGED <<heap, signals, frame, hold, fault>>
    /\ UNCHANGED ext

\* --------------------------------------------------- the specifications
Step(t) ==
    \/ AddBegin(t) \/ AddLock(t) \/ AddLink(t) \/ AddUnlock(t) \/ AddSignal(t)
    \/ \E i \in Items : RemoveBegin(t, i)
    \/ RemoveLock(t) \/ RemoveBody(t) \/ RemoveUnlock(t) \/ RemoveRelease(t)
    \/ \E i \in Items, m \in Movements : SetorderBegin(t, i, m)
    \/ SetorderLock(t) \/ SetorderDetach(t) \/ SetorderAttach(t) \/ SetorderUnlock(t)
    \/ \E i \in Items : AddRef(t, i)
    \/ \E i \in Items : Release(t, i)
    \/ Return(t)

\* One client thread: the calls of the API in sequence.
Next == Step(MainThread)
Spec == Init /\ [][Next]_vars

\* A second thread that reorders items while the first calls the API.
ReorderStep(t) ==
    \/ \E i \in Items, m \in Movements : SetorderBegin(t, i, m)
    \/ SetorderLock(t) \/ SetorderDetach(t) \/ SetorderAttach(t) \/ SetorderUnlock(t)
    \/ Return(t)

\* The first thread adds, removes and takes references meanwhile.
EditStep(t) ==
    \/ AddBegin(t) \/ AddLock(t) \/ AddLink(t) \/ AddUnlock(t) \/ AddSignal(t)
    \/ \E i \in Items : RemoveBegin(t, i)
    \/ RemoveLock(t) \/ RemoveBody(t) \/ RemoveUnlock(t) \/ RemoveRelease(t)
    \/ \E i \in Items : AddRef(t, i)
    \/ \E i \in Items : Release(t, i)
    \/ Return(t)

\* Adding and removing alone.
BuildStep(t) ==
    \/ AddBegin(t) \/ AddLock(t) \/ AddLink(t) \/ AddUnlock(t) \/ AddSignal(t)
    \/ \E i \in Items : RemoveBegin(t, i)
    \/ RemoveLock(t) \/ RemoveBody(t) \/ RemoveUnlock(t) \/ RemoveRelease(t)
    \/ Return(t)

NextMT == EditStep(MainThread) \/ ReorderStep(ReorderThread)
SpecMT == Init /\ [][NextMT]_vars

\* A second thread that only takes and gives up references to items, without
\* the scene's mutex, while the first adds and removes.
OtherThread == ReorderThread
HoldStep(t) ==
    \/ \E i \in Items : AddRef(t, i)
    \/ \E i \in Items : Release(t, i)

NextRef == EditStep(MainThread) \/ HoldStep(OtherThread)
SpecRef == Init /\ [][NextRef]_vars

\* ------------------------------------- obs_scene_enum_items (351-379)
\* if (!scene || !callback) return; (357-358)
EnumBegin(t) ==
    /\ Idle(t)
    /\ frame' = [frame EXCEPT ![t] = [NoFrame EXCEPT !.op = "forEach", !.scene = TheScene]]
    /\ pc' = [pc EXCEPT ![t] = "en_lock"]
    /\ UNCHANGED <<heap, mutex, signals, hold, fault>>
    /\ UNCHANGED ext

\* What the walk must find to go on: the mutex.
EnumCanLockNot(t) == TRUE
EnumCanLock(t) == CanLock(t)

\* pthread_mutex_lock(&scene->mutex); item = scene->first_item; (360-362)
EnumLock(t) ==
    /\ Running /\ pc[t] = "en_lock"
    /\ EnumCanLock(t)
    /\ mutex' = Locked(t)
    /\ frame' = [frame EXCEPT ![t].pre = Snapshot, ![t].item = first_item,
                               ![t].refs = ref]
    /\ pc' = [pc EXCEPT ![t] = "en_loop"]
    /\ UNCHANGED <<heap, signals, hold, fault>>
    /\ UNCHANGED ext

\* while (item) { next = item->next; obs_sceneitem_addref(item); (363-366)
EnumLoop(t) ==
    /\ Running /\ pc[t] = "en_loop"
    /\ LET item == frame[t].item
       IN IF item = NULL
          THEN /\ pc' = [pc EXCEPT ![t] = "en_unlock"]
               /\ UNCHANGED <<ref, frame, fault>>
          ELSE IF ~Live(item)
          THEN /\ fault' = "uaf"
               /\ UNCHANGED <<ref, frame, pc>>
          ELSE /\ frame' = [frame EXCEPT ![t].next = next[item]]
               /\ ref' = [ref EXCEPT ![item] = @ + 1]
               /\ pc' = [pc EXCEPT ![t] = "en_call"]
               /\ UNCHANGED fault
    /\ UNCHANGED <<first_item, next, prev, parent, removed, visible, scale, mem,
                   mutex, signals, hold>>
    /\ UNCHANGED ext

\* callback(scene, item, param): the callback looks at the item and answers
\* whether to go on. (368)
EnumCall(t) ==
    /\ Running /\ pc[t] = "en_call"
    /\ \E answer \in BOOLEAN :
        frame' = [frame EXCEPT ![t].seen = Append(@, frame[t].item),
                               ![t].flags = Append(@, removed[frame[t].item]),
                               ![t].more = answer]
    /\ pc' = [pc EXCEPT ![t] = "en_release"]
    /\ UNCHANGED <<heap, mutex, signals, hold, fault>>
    /\ UNCHANGED ext

\* if (!callback(scene, item, param)) { ...; break; } (368-371): whether the
\* walk goes on after the callback has given its answer.
EnumGoesOnAlways(answer) == TRUE
EnumGoesOn(answer) == answer

\* obs_sceneitem_release(item); break, or item = next; (368-375)
EnumRelease(t) ==
    /\ Running /\ pc[t] = "en_release"
    /\ LET item == frame[t].item
       IN /\ ref' = RefAfterRelease(item)
          /\ mem' = MemAfterRelease(item)
    /\ IF EnumGoesOn(frame[t].more)
       THEN /\ frame' = [frame EXCEPT ![t].item = frame[t].next]
            /\ pc' = [pc EXCEPT ![t] = "en_loop"]
       ELSE /\ pc' = [pc EXCEPT ![t] = "en_unlock"]
            /\ UNCHANGED frame
    /\ UNCHANGED <<first_item, next, prev, parent, removed, visible, scale,
                   mutex, signals, hold, fault>>
    /\ UNCHANGED ext

\* pthread_mutex_unlock(&scene->mutex); (378)
EnumUnlock(t) ==
    /\ Running /\ pc[t] = "en_unlock"
    /\ mutex' = Unlocked
    /\ pc' = [pc EXCEPT ![t] = "ret"]
    /\ UNCHANGED <<heap, signals, frame, hold, fault>>
    /\ UNCHANGED ext

EnumStep(t) ==
    \/ EnumBegin(t) \/ EnumLock(t) \/ EnumLoop(t) \/ EnumCall(t)
    \/ EnumRelease(t) \/ EnumUnlock(t) \/ Return(t)

\* One thread edits the scene while a second enumerates it; each thread that
\* can take a step eventually takes one.
NextEnum == BuildStep(MainThread) \/ EnumStep(OtherThread)
SpecEnum ==
    /\ Init /\ [][NextEnum]_vars
    /\ WF_vars(BuildStep(MainThread)) /\ WF_vars(EnumStep(OtherThread))

\* ------------------------------------------ the saved form of an item
\* A double tells DoublesPerFloat values apart where a float has one: the float
\* f is the double f * DoublesPerFloat, and (float)d drops what a float cannot
\* hold.
DoublesPerFloat == 2
ToDouble(f) == f * DoublesPerFloat
ToFloat(d) == d \div DoublesPerFloat
Vec2ToDouble(v) == <<ToDouble(v[1]), ToDouble(v[2])>>
Vec2ToFloat(v) == <<ToFloat(v[1]), ToFloat(v[2])>>

\* obs_get_source_by_name(name) finds a source.
Resolves(name) == name \in Sources
UnknownSource == "gone"

\* scene_save_item (233-247): the record written for an item.
RecordOf(item) ==
    [name |-> source[item], visible |-> visible[item],
     rot |-> ToDouble(rot[item]),
     origin |-> Vec2ToDouble(origin[item]),
     pos |-> Vec2ToDouble(pos[item]),
     scale |-> Vec2ToDouble(scale[item])]

\* obs_data_array_push_back(array, item_data) (245)
SavePushFront(recs, rec) == <<rec>> \o recs
SavePush(recs, rec) == Append(recs, rec)

\* What an item shows of itself: its source's name and its transform.
View(item) ==
    [name |-> source[item], visible |-> visible[item], rot |-> rot[item],
     origin |-> origin[item], pos |-> pos[item], scale |-> scale[item]]
Views(l) == [k \in 1..Len(l) |-> View(l[k])]

\* -------------------- obs_sceneitem_remove called with the mutex held
\* The whole of obs_sceneitem_remove(item) (453-483) as remove_all_items and
\* scene_video_render call it: the recursive mutex is taken and given back
\* within the call, the release of line 482 included.
NestedRemove(item) ==
    LET scene == parent[item]
        f == RemoveFault(scene, item)
    IN IF ~Live(item)
       THEN /\ fault' = "uaf"
            /\ UNCHANGED <<first_item, next, prev, parent, removed, ref, mem, signals>>
       ELSE IF removed[item]
       THEN UNCHANGED <<first_item, next, prev, parent, removed, ref, mem, signals, fault>>
       ELSE /\ removed' = [removed EXCEPT ![item] = TRUE]
            /\ fault' \in Outcomes(f)
            /\ IF scene # NULL
               THEN signals' = Append(signals, Signal("item_remove", scene, item))
               ELSE UNCHANGED signals
            /\ IF f = "none"
               THEN /\ next' = DetachNext(item)
                    /\ first_item' = DetachFirst(item)
                    /\ prev' = DetachPrev(item)
                    /\ parent' = DetachParent(item)
                    /\ ref' = RefAfterRelease(item)
                    /\ mem' = MemAfterRelease(item)
               ELSE UNCHANGED <<next, first_item, prev, parent, ref, mem>>

\* callback(scene, item, param) with a callback that calls
\* obs_sceneitem_remove(victim) for an item of the scene, the one it was given
\* or one the walk has not reached, and answers whether to go on. (368)
EnumCallRemove(t, victim) ==
    /\ Running /\ pc[t] = "en_call"
    /\ parent[victim] = TheScene /\ ~removed[victim]
    /\ victim \notin Range(frame[t].seen)
    /\ \E answer \in BOOLEAN :
        frame' = [frame EXCEPT ![t].seen = Append(@, frame[t].item),
                               ![t].flags = Append(@, removed[frame[t].item]),
                               ![t].more = answer]
    /\ NestedRemove(victim)
    /\ pc' = [pc EXCEPT ![t] = "en_release"]
    /\ UNCHANGED <<visible, scale, mutex, hold>>
    /\ UNCHANGED ext

\* ----------------------------------------- remove_all_items (74-90)
\* pthread_mutex_lock(&scene->mutex); item = scene->first_item; (78-80)
RemoveAllLock(t) ==
    /\ Running /\ pc[t] = "ra_lock"
    /\ CanLock(t)
    /\ mutex' = Locked(t)
    /\ frame' = [frame EXCEPT ![t].pre = Snapshot, ![t].item = first_item]
    /\ pc' = [pc EXCEPT ![t] = "ra_loop"]
    /\ UNCHANGED <<heap, signals, hold, fault>>
    /\ UNCHANGED ext

\* while (item) { del_item = item; item = item->next;
\*                obs_sceneitem_remove(del_item); } (82-87)
RemoveAllLoop(t) ==
    /\ Running /\ pc[t] = "ra_loop"
    /\ LET item == frame[t].item
       IN IF item = NULL
          THEN /\ pc' = [pc EXCEPT ![t] = "ra_unlock"]
               /\ UNCHANGED <<heap, signals, frame, fault>>
          ELSE /\ frame' = [frame EXCEPT ![t].item = next[item],
                                         ![t].seen = Append(@, item)]
               /\ NestedRemove(item)
               /\ UNCHANGED <<visible, scale, pc>>
    /\ UNCHANGED <<mutex, hold>>
    /\ UNCHANGED ext

\* pthread_mutex_unlock(&scene->mutex); and back in scene_load or
\* scene_destroy (89)
RemoveAllUnlock(t) ==
    /\ Running /\ pc[t] = "ra_unlock"
    /\ mutex' = Unlocked
    /\ pc' = [pc EXCEPT ![t] = IF frame[t].op = "load" THEN "ld_item" ELSE "ds_free"]
    /\ UNCHANGED <<heap, signals, frame, hold, fault>>
    /\ UNCHANGED ext

\* ------------------------------------------------ scene_load (213-231)
\* The items a load of recs allocates.
Resolvable(recs) == {k \in 1..Len(recs) : Resolves(recs[k].name)}
Unallocated == {i \in Items : mem[i] = "unalloc"}

\* items = obs_data_getarray(settings, "items"); remove_all_items(scene);
LoadBegin(t, recs) ==
    /\ Idle(t)
    /\ Cardinality(Resolvable(recs)) <= Cardinality(Unallocated)
    /\ frame' = [frame EXCEPT ![t] = [NoFrame EXCEPT !.op = "load", !.scene = TheScene,
                                                      !.recs = recs]]
    /\ pc' = [pc EXCEPT ![t] = "ra_lock"]
    /\ UNCHANGED <<heap, mutex, signals, hold, fault>>
    /\ UNCHANGED ext

\* for (i = 0; i < count; i++) scene_load_item(scene, item_data); (224-228)
\* scene_load_item (191-211): an unknown name is logged and skipped;
\* otherwise the whole of obs_scene_add(scene, source) and then the fields
\* of the record.
LoadItem(t) ==
    /\ Running /\ pc[t] = "ld_item"
    /\ LET recs == frame[t].recs
           i == frame[t].idx + 1
           item == NewItem
           l == List
       IN IF i > Len(recs)
          THEN /\ pc' = [pc EXCEPT ![t] = "ret"]
               /\ UNCHANGED <<heap, signals, frame, fault, source, rot, pos, origin>>
          ELSE IF ~Resolves(recs[i].name)
          THEN /\ frame' = [frame EXCEPT ![t].idx = i, ![t].warned = @ + 1]
               /\ UNCHANGED <<heap, signals, pc, fault, source, rot, pos, origin>>
          ELSE IF \E k \in 1..Len(l) : ~Live(l[k])
          THEN /\ fault' = "uaf"
               /\ UNCHANGED <<heap, signals, pc, frame, source, rot, pos, origin>>
          ELSE /\ frame' = [frame EXCEPT ![t].idx = i, ![t].seen = Append(@, item)]
               /\ mem' = [mem EXCEPT ![item] = "live"]
               /\ ref' = [ref EXCEPT ![item] = NewRef]
               /\ parent' = [parent EXCEPT ![item] = NewParent(frame[t].scene)]
               /\ removed' = [removed EXCEPT ![item] = FALSE]
               /\ source' = [source EXCEPT ![item] = recs[i].name]
               /\ IF l = <<>>
                  THEN /\ first_item' = item
                       /\ UNCHANGED <<next, prev>>
                  ELSE /\ next' = [next EXCEPT ![AddLast(l)] = item]
                       /\ prev' = [prev EXCEPT ![item] = AddLast(l)]
                       /\ UNCHANGED first_item
               /\ signals' = Append(signals, Signal("item_add", frame[t].scene, item))
               /\ rot' = [rot EXCEPT ![item] = ToFloat(recs[i].rot)]
               /\ visible' = [visible EXCEPT ![item] = recs[i].visible]
               /\ origin' = [origin EXCEPT ![item] = Vec2ToFloat(recs[i].origin)]
               /\ pos' = [pos EXCEPT ![item] = Vec2ToFloat(recs[i].pos)]
               /\ scale' = [scale EXCEPT ![item] = Vec2ToFloat(recs[i].scale)]
               /\ UNCHANGED <<pc, fault>>
    /\ UNCHANGED <<mutex, hold, removed_sources, records, original, returned>>
    /\ UNCHANGED aside

\* ------------------------------------------------ scene_save (249-267)
SaveBegin(t) ==
    /\ Idle(t)
    /\ frame' = [frame EXCEPT ![t] = [NoFrame EXCEPT !.op = "save", !.scene = TheScene]]
    /\ pc' = [pc EXCEPT ![t] = "sv_lock"]
    /\ UNCHANGED <<heap, mutex, signals, hold, fault>>
    /\ UNCHANGED ext

\* pthread_mutex_lock(&scene->mutex); item = scene->first_item; (255-257)
\* What the scene holds at this time is what is being saved.
SaveLock(t) ==
    /\ Running /\ pc[t] = "sv_lock"
    /\ CanLock(t)
    /\ mutex' = Locked(t)
    /\ frame' = [frame EXCEPT ![t].pre = Snapshot, ![t].item = first_item]
    /\ original' = Views(List)
    /\ pc' = [pc EXCEPT ![t] = "sv_loop"]
    /\ UNCHANGED <<heap, signals, hold, fault>>
    /\ UNCHANGED <<source, rot, pos, origin, removed_sources, records, returned>>
    /\ UNCHANGED aside

\* while (item) { scene_save_item(array, item); item = item->next; } (258-261)
SaveLoop(t) ==
    /\ Running /\ pc[t] = "sv_loop"
    /\ LET item == frame[t].item
       IN IF item = NULL
          THEN /\ pc' = [pc EXCEPT ![t] = "sv_unlock"]
               /\ UNCHANGED <<frame, fault>>
          ELSE IF ~Live(item)
          THEN /\ fault' = "uaf"
               /\ UNCHANGED <<frame, pc>>
          ELSE /\ frame' = [frame EXCEPT ![t].recs = SavePush(@, RecordOf(item)),
                                         ![t].item = next[item]]
               /\ UNCHANGED <<pc, fault>>
    /\ UNCHANGED <<heap, mutex, signals, hold>>
    /\ UNCHANGED ext

\* pthread_mutex_unlock(&scene->mutex); (263)
SaveUnlock(t) ==
    /\ Running /\ pc[t] = "sv_unlock"
    /\ mutex' = Unlocked
    /\ pc' = [pc EXCEPT ![t] = "sv_store"]
    /\ UNCHANGED <<heap, signals, frame, hold, fault>>
    /\ UNCHANGED ext

\* obs_data_setarray(settings, "items", array); (265)
SaveStore(t) ==
    /\ Running /\ pc[t] = "sv_store"
    /\ records' = frame[t].recs
    /\ pc' = [pc EXCEPT ![t] = "ret"]
    /\ UNCHANGED <<heap, mutex, signals, frame, hold, fault>>
    /\ UNCHANGED <<source, rot, pos, origin, removed_sources, original, returned>>
    /\ UNCHANGED aside

\* ------------------------- obs_sceneitem_setpos/rot/origin/scale (495-517)
\* The values a client sets.
Floats == {3}
Vectors == {<<1, 2>>}

Setpos(t, item, v) ==
    /\ Idle(t) /\ Valid(item)
    /\ pos' = [pos EXCEPT ![item] = v]
    /\ UNCHANGED <<heap, mutex, signals, pc, frame, hold, fault>>
    /\ UNCHANGED <<source, rot, origin, removed_sources, records, original, returned>>
    /\ UNCHANGED aside

Setrot(t, item, r) ==
    /\ Idle(t) /\ Valid(item)
    /\ rot' = [rot EXCEPT ![item] = r]
    /\ UNCHANGED <<heap, mutex, signals, pc, frame, hold, fault>>
    /\ UNCHANGED <<source, pos, origin, removed_sources, records, original, returned>>
    /\ UNCHANGED aside

Setorigin(t, item, v) ==
    /\ Idle(t) /\ Valid(item)
    /\ origin' = [origin EXCEPT ![item] = v]
    /\ UNCHANGED <<heap, mutex, signals, pc, frame, hold, fault>>
    /\ UNCHANGED <<source, rot, pos, removed_sources, records, original, returned>>
    /\ UNCHANGED aside

Setscale(t, item, v) ==
    /\ Idle(t) /\ Valid(item)
    /\ scale' = [scale EXCEPT ![item] = v]
    /\ UNCHANGED <<first_item, next, prev, parent, removed, ref, visible, mem>>
    /\ UNCHANGED <<mutex, signals, pc, frame, hold, fault>>
    /\ UNCHANGED ext

\* scene_create (46-72) of another scene: nothing is left of the scene before
\* but what was saved of it.
FreshScene(t) ==
    /\ Idle(t)
    /\ mutex.owner = NoThread
    /\ Unallocated # Items
    /\ first_item' = NULL
    /\ next' = [i \in Items |-> NULL]
    /\ prev' = [i \in Items |-> NULL]
    /\ parent' = [i \in Items |-> NULL]
    /\ removed' = [i \in Items |-> FALSE]
    /\ ref' = [i \in Items |-> 0]
    /\ visible' = [i \in Items |-> FALSE]
    /\ scale' = [i \in Items |-> <<0, 0>>]
    /\ mem' = [i \in Items |-> "unalloc"]
    /\ signals' = <<>>
    /\ hold' = [u \in Threads |-> [i \in Items |-> 0]]
    /\ source' = [i \in Items |-> NoSource]
    /\ rot' = [i \in Items |-> 0]
    /\ pos' = [i \in Items |-> <<0, 0>>]
    /\ origin' = [i \in Items |-> <<0, 0>>]
    /\ returned' = [i \in Items |-> FALSE]
    /\ UNCHANGED <<mutex, pc, frame, fault, removed_sources, records, original>>
    /\ UNCHANGED aside

\* Records as settings may hold them: of a source that is there or is not,
\* with values a float holds (even) or does not hold (odd).
Record(name, vis, d) ==
    [name |-> name, visible |-> vis, rot |-> d,
     origin |-> <<d, 0>>, pos |-> <<0, d>>, scale |-> <<2, 2>>]
SomeRecords ==
    {Record("camera", TRUE, 0), Record("window", FALSE, 5), Record(UnknownSource, TRUE, 2)}
MaxRecords == 3
RECURSIVE SeqsUpTo(_, _)
SeqsUpTo(S, n) ==
    IF n = 0 THEN {<<>>}
    ELSE LET shorter == SeqsUpTo(S, n - 1)
         IN shorter \cup {Append(q, x) : q \in shorter, x \in S}
SampleRecords == SeqsUpTo(SomeRecords, MaxRecords)

\* Nothing has been saved yet, and the scene being built may still grow.
MaxSaved == 2
Unsaved == records = <<>>
Allocated == Items \ Unallocated

\* One client builds a scene and sets its items' transforms, saves it, and
\* loads what was saved, into the same scene or into another.
PersistStep(t) ==
    \/ Unsaved /\ Cardinality(Allocated) < MaxSaved /\ AddBegin(t)
    \/ AddLock(t) \/ AddLink(t) \/ AddUnlock(t) \/ AddSignal(t)
    \/ Unsaved /\ Allocated = {} /\ \E recs \in SampleRecords : Len(recs) = 1 /\ LoadBegin(t, recs)
    \/ Unsaved /\ \E i \in Items, r \in Floats : Setrot(t, i, r)
    \/ Unsaved /\ \E i \in Items, v \in Vectors : Setpos(t, i, v)
    \/ Unsaved /\ \E i \in Items, v \in Vectors : Setorigin(t, i, v)
    \/ Unsaved /\ \E i \in Items, v \in Vectors : Setscale(t, i, v)
    \/ SaveBegin(t) \/ SaveLock(t) \/ SaveLoop(t) \/ SaveUnlock(t) \/ SaveStore(t)
    \/ FreshScene(t)
    \/ LoadBegin(t, records)
    \/ RemoveAllLock(t) \/ RemoveAllLoop(t) \/ RemoveAllUnlock(t)
    \/ LoadItem(t)
    \/ Return(t)

NextPersist == PersistStep(MainThread)
SpecPersist == Init /\ [][NextPersist]_vars

\* scene_load of any of the sample settings.
LoadStep(t) ==
    \/ \E recs \in SampleRecords : LoadBegin(t, recs)
    \/ RemoveAllLock(t) \/ RemoveAllLoop(t) \/ RemoveAllUnlock(t)
    \/ LoadItem(t)

\* One client adds, removes and reorders items and loads settings.
NextLoad == Step(MainThread) \/ LoadStep(MainThread)
SpecLoad == Init /\ [][NextLoad]_vars

\* The same without obs_sceneitem_setorder.
NextLoadEdit == EditStep(MainThread) \/ LoadStep(MainThread)
SpecLoadEdit == Init /\ [][NextLoadEdit]_vars

\* ------------------------------------- obs_scene_findsource (329-349)
\* if (!scene) return NULL; (333-334)
FindBegin(t, name) ==
    /\ Idle(t)
    /\ frame' = [frame EXCEPT ![t] = [NoFrame EXCEPT !.op = "find", !.scene = TheScene,
                                                      !.name = name]]
    /\ pc' = [pc EXCEPT ![t] = "fd_lock"]
    /\ UNCHANGED <<heap, mutex, signals, hold, fault>>
    /\ UNCHANGED ext

\* pthread_mutex_lock(&scene->mutex); item = scene->first_item; (336-338)
FindLock(t) ==
    /\ Running /\ pc[t] = "fd_lock"
    /\ CanLock(t)
    /\ mutex' = Locked(t)
    /\ frame' = [frame EXCEPT ![t].pre = Snapshot, ![t].item = first_item]
    /\ pc' = [pc EXCEPT ![t] = "fd_loop"]
    /\ UNCHANGED <<heap, signals, hold, fault>>
    /\ UNCHANGED ext

\* strcmp(item->source->context.name, name) == 0 (340)
FindMatchesNot(item, name) == source[item] # name
FindMatches(item, name) == source[item] = name

\* while (item) { if (strcmp(...) == 0) break; item = item->next; } (339-344)
FindLoop(t) ==
    /\ Running /\ pc[t] = "fd_loop"
    /\ LET item == frame[t].item
       IN IF item = NULL
          THEN /\ pc' = [pc EXCEPT ![t] = "fd_unlock"]
               /\ UNCHANGED <<frame, fault>>
          ELSE IF ~Live(item)
          THEN /\ fault' = "uaf"
               /\ UNCHANGED <<frame, pc>>
          ELSE IF FindMatches(item, frame[t].name)
          THEN /\ pc' = [pc EXCEPT ![t] = "fd_unlock"]
               /\ UNCHANGED <<frame, fault>>
          ELSE /\ frame' = [frame EXCEPT ![t].item = next[item]]
               /\ UNCHANGED <<pc, fault>>
    /\ UNCHANGED <<heap, mutex, signals, hold>>
    /\ UNCHANGED ext

\* pthread_mutex_unlock(&scene->mutex); return item; (346-348)
FindUnlock(t) ==
    /\ Running /\ pc[t] = "fd_unlock"
    /\ mutex' = Unlocked
    /\ pc' = [pc EXCEPT ![t] = "ret"]
    /\ UNCHANGED <<heap, signals, frame, hold, fault>>
    /\ UNCHANGED ext

FindStep(t) ==
    \/ \E name \in Sources \cup {UnknownSource} : FindBegin(t, name)
    \/ FindLock(t) \/ FindLoop(t) \/ FindUnlock(t)

\* One client adds items of any source, removes and reorders them, and looks
\* sources up.
NextFind ==
    \/ BuildStep(MainThread) \/ ReorderStep(MainThread)
    \/ \E s \in Sources \ {DefaultSource} : AddBeginWith(MainThread, s)
    \/ FindStep(MainThread)
SpecFind == Init /\ [][NextFind]_vars

\* ------------------------------------- scene_video_render (155-189)
\* A source is removed (obs_source_remove): obs_source_removed() is true of it
\* from then on.
SourceRemove(t, s) ==
    /\ Idle(t)
    /\ s \notin removed_sources
    /\ removed_sources' = removed_sources \cup {s}
    /\ UNCHANGED <<heap, mutex, signals, pc, frame, hold, fault>>
    /\ UNCHANGED <<source, rot, pos, origin, records, original, returned>>
    /\ UNCHANGED aside

\* obs_source_removed(item->source) (165)
SourceRemoved(item) == source[item] \in removed_sources

\* The source of an item may be a scene (obs_scene_getsource, 316-319):
\* scene_info (281-289) makes scene_video_render the video_render of such a
\* source. InnerScene is the name of the source of the second scene.
InnerScene == "scene"

\* The render pass of thread t has come to an item that is to be drawn and
\* whose source is the second scene.
DrawsScene(t) ==
    LET item == frame[t].item
    IN /\ item # NULL /\ Live(item)
       /\ ~SourceRemoved(item)
       /\ source[item] = InnerScene

RenderBegin(t) ==
    /\ Idle(t)
    /\ frame' = [frame EXCEPT ![t] = [NoFrame EXCEPT !.op = "render", !.scene = TheScene]]
    /\ pc' = [pc EXCEPT ![t] = "rn_lock"]
    /\ UNCHANGED <<heap, mutex, signals, hold, fault>>
    /\ UNCHANGED ext

\* pthread_mutex_lock(&scene->mutex); item = scene->first_item; (160-162)
RenderLock(t) ==
    /\ Running /\ pc[t] = "rn_lock"
    /\ CanLock(t)
    /\ mutex' = Locked(t)
    /\ frame' = [frame EXCEPT ![t].pre = Snapshot, ![t].item = first_item]
    /\ pc' = [pc EXCEPT ![t] = "rn_loop"]
    /\ UNCHANGED <<heap, signals, hold, fault>>
    /\ UNCHANGED ext

\* while (item) { if (obs_source_removed(item->source)) { del_item = item;
\* item = item->next; obs_sceneitem_remove(del_item); continue; }
\* ... obs_source_video_render(item->source); item = item->next; } (164-183)
RenderLoop(t) ==
    /\ Running /\ pc[t] = "rn_loop"
    /\ ~DrawsScene(t)
    /\ LET item == frame[t].item
       IN IF item = NULL
          THEN /\ pc' = [pc EXCEPT ![t] = "rn_unlock"]
               /\ UNCHANGED <<heap, signals, frame, fault>>
          ELSE IF ~Live(item)
          THEN /\ fault' = "uaf"
               /\ UNCHANGED <<heap, signals, frame, pc>>
          ELSE IF SourceRemoved(item)
          THEN /\ frame' = [frame EXCEPT ![t].item = next[item]]
               /\ NestedRemove(item)
               /\ UNCHANGED <<visible, scale, pc>>
          ELSE /\ frame' = [frame EXCEPT ![t].item = next[item],
                                         ![t].seen = Append(@, item),
                                         ![t].flags = Append(@, removed[item])]
               /\ UNCHANGED <<heap, signals, pc, fault>>
    /\ UNCHANGED <<mutex, hold>>
    /\ UNCHANGED ext

\* pthread_mutex_unlock(&scene->mutex); (186)
RenderUnlock(t) ==
    /\ Running /\ pc[t] = "rn_unlock"
    /\ mutex' = Unlocked
    /\ pc' = [pc EXCEPT ![t] = "ret"]
    /\ UNCHANGED <<heap, signals, frame, hold, fault>>
    /\ UNCHANGED ext

\* obs_source_video_render(item->source) (179) for an item whose source is a
\* scene: scene_video_render of that scene is entered, with the mutex of the
\* outer scene held.
RenderChildBegin(t) ==
    /\ Running /\ pc[t] = "rn_loop"
    /\ DrawsScene(t)
    /\ pc' = [pc EXCEPT ![t] = "in_lock"]
    /\ UNCHANGED <<heap, mutex, signals, frame, hold, fault>>
    /\ UNCHANGED ext

\* scene_video_render of the second scene called on its own.
InnerRenderBegin(t) ==
    /\ Idle(t)
    /\ frame' = [frame EXCEPT ![t] = [NoFrame EXCEPT !.op = "render_inner"]]
    /\ pc' = [pc EXCEPT ![t] = "in_lock"]
    /\ UNCHANGED <<heap, mutex, signals, hold, fault>>
    /\ UNCHANGED ext

\* pthread_mutex_lock(&scene->mutex) of the second scene (160)
InnerRenderLock(t) ==
    /\ Running /\ pc[t] = "in_lock"
    /\ inner_mutex.owner \in {NoThread, t}
    /\ inner_mutex' = [owner |-> t, depth |-> inner_mutex.depth + 1]
    /\ pc' = [pc EXCEPT ![t] = "in_loop"]
    /\ UNCHANGED <<heap, mutex, signals, frame, hold, fault>>
    /\ UNCHANGED <<source, rot, pos, origin, removed_sources, records, original, returned,
                   ca, reconnect, apc>>

\* The walk over the items of the second scene, which has none, and
\* pthread_mutex_unlock(&scene->mutex) (164-186); a pass that was called for an
\* item of the outer scene goes on with the next item (181).
InnerRenderUnlock(t) ==
    /\ Running /\ pc[t] = "in_loop"
    /\ inner_mutex' = IF inner_mutex.depth <= 1 THEN [owner |-> NoThread, depth |-> 0]
                      ELSE [inner_mutex EXCEPT !.depth = @ - 1]
    /\ IF frame[t].op = "render"
       THEN /\ frame' = [frame EXCEPT ![t].item = next[frame[t].item],
                                      ![t].seen = Append(@, frame[t].item),
                                      ![t].flags = Append(@, removed[frame[t].item])]
            /\ pc' = [pc EXCEPT ![t] = "rn_loop"]
       ELSE /\ pc' = [pc EXCEPT ![t] = "ret"]
            /\ UNCHANGED frame
    /\ UNCHANGED <<heap, mutex, signals, hold, fault>>
    /\ UNCHANGED <<source, rot, pos, origin, removed_sources, records, original, returned,
                   ca, reconnect, apc>>

RenderStep(t) ==
    \/ \E s \in Sources : SourceRemove(t, s)
    \/ RenderBegin(t) \/ RenderLock(t) \/ RenderLoop(t) \/ RenderUnlock(t)

\* One client adds items of any source, removes and reorders them; sources
\* get removed and the scene is rendered.
NextRender ==
    \/ Step(MainThread)
    \/ \E s \in Sources \ {DefaultSource} : AddBeginWith(MainThread, s)
    \/ RenderStep(MainThread)
SpecRender == Init /\ [][NextRender]_vars

\* The same without obs_sceneitem_setorder.
NextRenderEdit ==
    \/ EditStep(MainThread)
    \/ \E s \in Sources \ {DefaultSource} : AddBeginWith(MainThread, s)
    \/ RenderStep(MainThread)
SpecRenderEdit == Init /\ [][NextRenderEdit]_vars

\* ------------------------------------------------ scene_destroy (92-99)
\* remove_all_items(scene);
DestroyBegin(t) ==
    /\ Idle(t)
    /\ frame' = [frame EXCEPT ![t] = [NoFrame EXCEPT !.op = "destroy", !.scene = TheScene]]
    /\ pc' = [pc EXCEPT ![t] = "ra_lock"]
    /\ UNCHANGED <<heap, mutex, signals, hold, fault>>
    /\ UNCHANGED ext

\* pthread_mutex_destroy(&scene->mutex); bfree(scene); (97-98): nobody takes
\* the mutex of the scene any more.
Destroyed == [owner |-> "destroyed", depth |-> 0]
DestroyFree(t) ==
    /\ Running /\ pc[t] = "ds_free"
    /\ mutex' = Destroyed
    /\ pc' = [pc EXCEPT ![t] = "ret"]
    /\ UNCHANGED <<heap, signals, frame, hold, fault>>
    /\ UNCHANGED ext

DestroyStep(t) ==
    \/ DestroyBegin(t)
    \/ RemoveAllLock(t) \/ RemoveAllLoop(t) \/ RemoveAllUnlock(t)
    \/ DestroyFree(t)

\* One client adds, removes and reorders items, takes references to them, and
\* destroys the scene.
NextDestroy == Step(MainThread) \/ DestroyStep(MainThread)
SpecDestroy == Init /\ [][NextDestroy]_vars

\* The same without obs_sceneitem_setorder.
NextDestroyEdit == EditStep(MainThread) \/ DestroyStep(MainThread)
SpecDestroyEdit == Init /\ [][NextDestroyEdit]_vars

\* The caller of obs_scene_add releases the item it was returned:
\* obs_sceneitem_release(item) (444-451).
ReleaseReturned(t, item) ==
    /\ Idle(t) /\ Valid(item)
    /\ returned[item]
    /\ returned' = [returned EXCEPT ![item] = FALSE]
    /\ ref' = RefAfterRelease(item)
    /\ mem' = MemAfterRelease(item)
    /\ UNCHANGED <<first_item, next, prev, parent, removed, visible, scale>>
    /\ UNCHANGED <<mutex, signals, pc, frame, hold, fault>>
    /\ UNCHANGED <<source, rot, pos, origin, removed_sources, records, original>>
    /\ UNCHANGED aside

\* One client adds and removes items, takes references, and releases what add
\* returned to it.
NextOwner == EditStep(MainThread) \/ \E i \in Items : ReleaseReturned(MainThread, i)
SpecOwner == Init /\ [][NextOwner]_vars

\* One thread builds the scene, also with items whose source is the second
\* scene, and renders it; another thread renders the second scene.
NextNested ==
    \/ BuildStep(MainThread)
    \/ AddBeginWith(MainThread, InnerScene)
    \/ RenderBegin(MainThread) \/ RenderLock(MainThread) \/ RenderLoop(MainThread)
    \/ RenderUnlock(MainThread)
    \/ RenderChildBegin(MainThread)
    \/ InnerRenderBegin(OtherThread) \/ InnerRenderLock(MainThread)
    \/ InnerRenderLock(OtherThread)
    \/ InnerRenderUnlock(MainThread) \/ InnerRenderUnlock(OtherThread)
    \/ Return(OtherThread)
SpecNested == Init /\ [][NextNested]_vars

\* One thread builds the scene and enumerates it with a callback that may
\* remove items of the scene.
NextEnumEdit ==
    \/ BuildStep(MainThread)
    \/ EnumStep(MainThread)
    \/ \E victim \in Items : EnumCallRemove(MainThread, victim)
SpecEnumEdit == Init /\ [][NextEnumEdit]_vars

\* One thread builds the scene, takes and gives up references, and enumerates
\* with a callback that changes nothing.
NextEnumOnly ==
    \/ BuildStep(MainThread)
    \/ HoldStep(MainThread)
    \/ EnumStep(MainThread)
SpecEnumOnly == Init /\ [][NextEnumOnly]_vars

\* One thread adds items of any source and removes items; a second removes
\* sources, renders the scene and removes items.
RemoveStep(t) ==
    \/ \E i \in Items : RemoveBegin(t, i)
    \/ RemoveLock(t) \/ RemoveBody(t) \/ RemoveUnlock(t) \/ RemoveRelease(t)
    \/ Return(t)
NextAddRace ==
    \/ BuildStep(MainThread)
    \/ \E s \in Sources \ {DefaultSource} : AddBeginWith(MainThread, s)
    \/ RenderStep(OtherThread)
    \/ RemoveStep(OtherThread)
SpecAddRace == Init /\ [][NextAddRace]_vars

\* ------------------------------------------ mac-audio.c: the CoreAudio source
\* What a step of the CoreAudio source leaves alone: the scene.
scene_vars ==
    <<first_item, next, prev, parent, removed, ref, visible, scale, mem, mutex,
      signals, pc, frame, hold, source, rot, pos, origin, removed_sources,
      records, original, returned, inner_mutex>>

\* The device state is allocated and not freed.
DeviceLive == ca.mem = "live"

\* coreaudio_uninit (528-551): nothing when !au_initialized; else the hooks
\* are removed (538) and au_initialized is cleared (546).
Uninit(d) ==
    IF d.au_initialized
    THEN [d EXCEPT !.au_initialized = FALSE, !.hooks = FALSE]
    ELSE d

\* coreaudio_create (584-602): bzalloc, event_init, then coreaudio_try_init,
\* which begins with coreaudio_init (519).
CoreaudioCreate ==
    /\ Running /\ apc[OwnerCaller] = "idle"
    /\ ca.mem = "unalloc"
    /\ ca' = [NoDevice EXCEPT !.mem = "live"]
    /\ apc' = [apc EXCEPT ![OwnerCaller] = "ci_begin"]
    /\ UNCHANGED <<reconnect, fault>>
    /\ UNCHANGED scene_vars

\* coreaudio_init (468-480): true at once when au_initialized; false when
\* the device is not found or has no name or no unit can be made; else
\* coreaudio_init_unit sets au_initialized (464).
CoreaudioInitBegin(p) ==
    /\ Running /\ apc[p] = "ci_begin"
    /\ DeviceLive
    /\ IF ca.au_initialized
       THEN /\ apc' = [apc EXCEPT ![p] = "ci_true"]
            /\ UNCHANGED ca
       ELSE \E found \in BOOLEAN :
            IF found
            THEN /\ ca' = [ca EXCEPT !.au_initialized = TRUE]
                 /\ apc' = [apc EXCEPT ![p] = "ci_hooks"]
            ELSE /\ apc' = [apc EXCEPT ![p] = "ci_false"]
                 /\ UNCHANGED ca
    /\ UNCHANGED <<reconnect, fault>>
    /\ UNCHANGED scene_vars

\* enable_io ... coreaudio_init_hooks (482-500): a step that fails goes to
\* fail; coreaudio_init_hooks registers disconnection_callback (363).
CoreaudioInitHooks(p) ==
    /\ Running /\ apc[p] = "ci_hooks"
    /\ DeviceLive
    /\ \E ok \in BOOLEAN :
        IF ok
        THEN /\ ca' = [ca EXCEPT !.hooks = TRUE]
             /\ apc' = [apc EXCEPT ![p] = "ci_start"]
        ELSE /\ apc' = [apc EXCEPT ![p] = "ci_fail"]
             /\ UNCHANGED ca
    /\ UNCHANGED <<reconnect, fault>>
    /\ UNCHANGED scene_vars

\* AudioUnitInitialize; if (coreaudio_start(ca)) goto fail;
\* return ca->au_initialized; (502-510): coreaudio_start is true when the
\* unit has started (423-432).
CoreaudioInitStart(p) ==
    /\ Running /\ apc[p] = "ci_start"
    /\ DeviceLive
    /\ \E started \in BOOLEAN :
        apc' = [apc EXCEPT ![p] = IF started THEN "ci_fail"
                                  ELSE IF ca.au_initialized THEN "ci_true"
                                  ELSE "ci_false"]
    /\ UNCHANGED <<ca, reconnect, fault>>
    /\ UNCHANGED scene_vars

\* fail: coreaudio_uninit(ca); return false; (512-514)
CoreaudioInitFail(p) ==
    /\ Running /\ apc[p] = "ci_fail"
    /\ DeviceLive
    /\ ca' = Uninit(ca)
    /\ apc' = [apc EXCEPT ![p] = "ci_false"]
    /\ UNCHANGED <<reconnect, fault>>
    /\ UNCHANGED scene_vars


\* coreaudio_try_init (517-526) after coreaudio_init: begin the reconnect
\* when it was false; coreaudio_create returns ca (601).
CoreaudioTryInit ==
    /\ Running /\ apc[OwnerCaller] \in {"ci_true", "ci_false"}
    /\ apc' = [apc EXCEPT ![OwnerCaller] =
                  IF apc[OwnerCaller] = "ci_true" THEN "created" ELSE "br_check"]
    /\ UNCHANGED <<ca, reconnect, fault>>
    /\ UNCHANGED scene_vars

\* coreaudio_begin_reconnect (305-316): nothing when ca->reconnecting; else
\* pthread_create starts reconnect_thread and stores it in
\* ca->reconnect_thread.
CoreaudioBeginReconnect(p) ==
    /\ Running /\ apc[p] = "br_check"
    /\ DeviceLive
    /\ LET back == IF p = OwnerCaller THEN "created" ELSE "idle"
       IN IF ca.reconnecting
          THEN /\ apc' = [apc EXCEPT ![p] = back]
               /\ UNCHANGED <<ca, reconnect>>
          ELSE \E r \in ReconnectThreads :
               /\ reconnect[r] = "none"
               /\ reconnect' = [reconnect EXCEPT ![r] = "running"]
               /\ ca' = [ca EXCEPT !.reconnect_thread = r]
               /\ apc' = [apc EXCEPT ![p] = back, ![Reconnector(r)] = "rc_set"]
    /\ UNCHANGED fault
    /\ UNCHANGED scene_vars

\* reconnect_thread: ca->reconnecting = true; (293)
ReconnectSet(r) ==
    /\ Running /\ apc[Reconnector(r)] = "rc_set"
    /\ DeviceLive
    /\ ca' = [ca EXCEPT !.reconnecting = TRUE]
    /\ apc' = [apc EXCEPT ![Reconnector(r)] = "rc_wait"]
    /\ UNCHANGED <<reconnect, fault>>
    /\ UNCHANGED scene_vars

\* while (event_timedwait(ca->exit_event, RETRY_TIME) == ETIMEDOUT) (295):
\* the wait ends at once when the event is signalled, else it times out and
\* coreaudio_init is called (296).
ReconnectWait(r) ==
    /\ Running /\ apc[Reconnector(r)] = "rc_wait"
    /\ DeviceLive
    /\ apc' = [apc EXCEPT ![Reconnector(r)] =
                  IF ca.exit_event THEN "rc_clear" ELSE "ci_begin"]
    /\ UNCHANGED <<ca, reconnect, fault>>
    /\ UNCHANGED scene_vars

\* if (coreaudio_init(ca)) break; (296-297)
ReconnectInitDone(r) ==
    /\ Running /\ apc[Reconnector(r)] \in {"ci_true", "ci_false"}
    /\ apc' = [apc EXCEPT ![Reconnector(r)] =
                  IF apc[Reconnector(r)] = "ci_true" THEN "rc_clear" ELSE "rc_wait"]
    /\ UNCHANGED <<ca, reconnect, fault>>
    /\ UNCHANGED scene_vars

\* ca->reconnecting = false; (301)
ReconnectClear(r) ==
    /\ Running /\ apc[Reconnector(r)] = "rc_clear"
    /\ DeviceLive
    /\ ca' = [ca EXCEPT !.reconnecting = FALSE]
    /\ apc' = [apc EXCEPT ![Reconnector(r)] = "rc_exit"]
    /\ UNCHANGED <<reconnect, fault>>
    /\ UNCHANGED scene_vars

\* return NULL; (302): the thread has ended.
ReconnectExit(r) ==
    /\ Running /\ apc[Reconnector(r)] = "rc_exit"
    /\ reconnect' = [reconnect EXCEPT ![r] = "done"]
    /\ apc' = [apc EXCEPT ![Reconnector(r)] = "done"]
    /\ UNCHANGED <<ca, fault>>
    /\ UNCHANGED scene_vars


\* disconnection_callback (318-346), called by CoreAudio while it is
\* registered, for a device that is no longer alive: coreaudio_stop,
\* coreaudio_uninit (333-334), then coreaudio_begin_reconnect (340).
DisconnectionCallback ==
    /\ Running /\ apc[Notifier] = "idle"
    /\ DeviceLive /\ ca.hooks
    /\ ca' = Uninit(ca)
    /\ apc' = [apc EXCEPT ![Notifier] = "br_check"]
    /\ UNCHANGED <<reconnect, fault>>
    /\ UNCHANGED scene_vars

\* coreaudio_destroy (562-570), called on what coreaudio_create returned:
\* if (ca->reconnecting) { event_signal(ca->exit_event); pthread_join }
DestroyCheck ==
    /\ Running /\ apc[OwnerCaller] = "created"
    /\ IF ca.reconnecting
       THEN /\ ca' = [ca EXCEPT !.exit_event = TRUE]
            /\ apc' = [apc EXCEPT ![OwnerCaller] = "dy_join"]
       ELSE /\ apc' = [apc EXCEPT ![OwnerCaller] = "dy_free"]
            /\ UNCHANGED ca
    /\ UNCHANGED <<reconnect, fault>>
    /\ UNCHANGED scene_vars

\* pthread_join(ca->reconnect_thread, NULL) (569) returns when that thread
\* has ended.
DestroyJoin ==
    /\ Running /\ apc[OwnerCaller] = "dy_join"
    /\ ca.reconnect_thread \in ReconnectThreads
    /\ reconnect[ca.reconnect_thread] = "done"
    /\ apc' = [apc EXCEPT ![OwnerCaller] = "dy_free"]
    /\ UNCHANGED <<ca, reconnect, fault>>
    /\ UNCHANGED scene_vars

\* coreaudio_uninit(ca); ... bfree(ca); (572-580)
DestroyDevice ==
    /\ Running /\ apc[OwnerCaller] = "dy_free"
    /\ ca' = [Uninit(ca) EXCEPT !.mem = "freed"]
    /\ apc' = [apc EXCEPT ![OwnerCaller] = "destroyed"]
    /\ UNCHANGED <<reconnect, fault>>
    /\ UNCHANGED scene_vars

\* The places where a thread reads or writes *ca.
TouchesDevice ==
    {"ci_begin", "ci_hooks", "ci_start", "ci_fail", "br_check", "rc_set",
     "rc_wait", "rc_clear"}

\* A thread reads or writes *ca after bfree(ca) (580).
UseAfterDestroy(p) ==
    /\ Running /\ apc[p] \in TouchesDevice
    /\ ca.mem = "freed"
    /\ fault' = "uaf"
    /\ UNCHANGED <<ca, reconnect, apc>>
    /\ UNCHANGED scene_vars

NextAudio ==
    \/ CoreaudioCreate \/ CoreaudioTryInit
    \/ \E p \in AudioProcs :
        \/ CoreaudioInitBegin(p) \/ CoreaudioInitHooks(p)
        \/ CoreaudioInitStart(p) \/ CoreaudioInitFail(p)
        \/ CoreaudioBeginReconnect(p)
        \/ UseAfterDestroy(p)
    \/ \E r \in ReconnectThreads :
        \/ ReconnectSet(r) \/ ReconnectWait(r) \/ ReconnectInitDone(r)
        \/ ReconnectClear(r) \/ ReconnectExit(r)
    \/ DisconnectionCallback
    \/ DestroyCheck \/ DestroyJoin \/ DestroyDevice
SpecAudio == Init /\ [][NextAudio]_vars

\* ------------------------------------------------------------ the claims
NoDuplicates(s) == \A j, k \in 1..Len(s) : j # k => s[j] # s[k]

\* The items add has linked and remove has not unlinked.
InScene(i) == Live(i) /\ ~removed[i] /\ ~BeingAdded(i)

ValidList ==
    /\ first_item # NULL => prev[first_item] = NULL
    /\ \A k \in 1..(Len(List) - 1) : prev[List[k + 1]] = List[k]
    /\ \A x \in Range(List) : prev[x] # NULL => next[prev[x]] = x
    /\ Len(List) <= MaxItems /\ NoDuplicates(List)
    /\ \A i \in Items : InScene(i) => Linked(i)


\* ----------------------------------------------- what a call has done
SignalCount(name, scene, item) ==
    Cardinality({k \in 1..Len(signals) : signals[k] = Signal(name, scene, item)})
SignalsAbout(name, item) ==
    Cardinality({k \in 1..Len(signals) :
                    signals[k].name = name /\ signals[k].item = item})

\* The list as the call of thread t found it.
PreList(t) == IF pc[t] \in {"so_lock", "rm_lock", "add_lock"} THEN List ELSE frame[t].pre

\* setorder has re-attached the item (the mutex is still held, or the call is over).
SetorderDone(t) == frame[t].op = "setorder" /\ pc[t] \in {"so_unlock", "ret"}
WasLinked(t) == frame[t].item \in Range(PreList(t))
WasHead(t) == PreList(t) # <<>> /\ PreList(t)[1] = frame[t].item
WasTail(t) == PreList(t) # <<>> /\ Last(PreList(t)) = frame[t].item
Moves(t, movement) ==
    frame[t].op = "setorder" /\ frame[t].movement = movement /\ WasLinked(t)

Swapped(s, j, k) == [s EXCEPT ![j] = s[k], ![k] = s[j]]

\* C1: for an item kept alive by an extra reference, a call of remove ends
\* normally; once it has ended there is exactly one item_remove signal about the
\* item and the item is out of the list, and a call that found the item already
\* removed has left the list as it found it.
ExtraRef(item) == \E u \in Threads : hold[u][item] > 0
C1_RemoveTwiceOneSignal ==
    \A t \in Threads :
        (frame[t].op = "remove" /\ ExtraRef(frame[t].item)) =>
            /\ fault = "none"
            /\ pc[t] = "ret" =>
                /\ SignalsAbout("item_remove", frame[t].item) = 1
                /\ ~Linked(frame[t].item)
                /\ frame[t].early => List = frame[t].pre

\* C2: setorder on a linked item ends normally for every movement and leaves
\* the list with exactly the items it had, each once.
C2_SetorderKeepsItems ==
    \A t \in Threads :
        (frame[t].op = "setorder" /\ WasLinked(t)) =>
            /\ fault = "none"
            /\ SetorderDone(t) =>
                /\ Range(List) = Range(PreList(t))
                /\ Len(List) = Len(PreList(t))

\* C3: whenever no thread holds the scene mutex, the list is a valid
\* doubly-linked sequence: the head has no prev, next and prev agree on every
\* linked item, and following next from the head meets every item of the scene
\* exactly once and ends.
C3_ValidListOutsideLock ==
    (Running /\ mutex.owner = NoThread) => ValidList

\* C4: outside a held mutex an item's parent is non-empty exactly when the item
\* is linked into the list (an item add has not linked yet is left aside).
C4_ParentIffLinked ==
    (Running /\ mutex.owner = NoThread) =>
        \A i \in Items :
            (Live(i) /\ ~BeingAdded(i)) => (parent[i] # NULL <=> Linked(i))

\* C5: setorder(item, ORDER_MOVE_TOP) on a linked item ends normally and leaves
\* the item last, the other items keeping their order (also in a list of one).
C5_TopMovesToTail ==
    \A t \in Threads :
        Moves(t, "ORDER_MOVE_TOP") =>
            /\ fault = "none"
            /\ SetorderDone(t) =>
                List = Append(Without(PreList(t), frame[t].item), frame[t].item)

\* C6: setorder(item, ORDER_MOVE_BOTTOM) on a linked item ends normally and
\* leaves the item at the head, the other items keeping their order.
C6_BottomMovesToHead ==
    \A t \in Threads :
        Moves(t, "ORDER_MOVE_BOTTOM") =>
            /\ fault = "none"
            /\ SetorderDone(t) =>
                List = <<frame[t].item>> \o Without(PreList(t), frame[t].item)

\* C7: setorder(item, ORDER_MOVE_UP) on a linked item that is not the head
\* swaps it with its former predecessor: its index decreases by one.
C7_UpSwapsWithPredecessor ==
    \A t \in Threads :
        (Moves(t, "ORDER_MOVE_UP") /\ ~WasHead(t) /\ SetorderDone(t)) =>
            LET k == IndexOf(PreList(t), frame[t].item)
            IN List = Swapped(PreList(t), k - 1, k)

\* C8: setorder(item, ORDER_MOVE_DOWN) on a linked item that is not the tail
\* ends normally and swaps it with its former successor: its index increases
\* by one.
C8_DownSwapsWithSuccessor ==
    \A t \in Threads :
        (Moves(t, "ORDER_MOVE_DOWN") /\ ~WasTail(t)) =>
            /\ fault = "none"
            /\ SetorderDone(t) =>
                LET k == IndexOf(PreList(t), frame[t].item)
                IN List = Swapped(PreList(t), k, k + 1)

\* C9: setorder(item, ORDER_MOVE_UP) on the head and setorder(item,
\* ORDER_MOVE_DOWN) on the tail fail no assertion and do not crash, and leave
\* the list order as it was.
C9_BoundaryMoveIsSafe ==
    \A t \in Threads :
        (\/ Moves(t, "ORDER_MOVE_UP") /\ WasHead(t)
         \/ Moves(t, "ORDER_MOVE_DOWN") /\ WasTail(t)) =>
            /\ fault = "none"
            /\ SetorderDone(t) => List = PreList(t)

\* C10: add ends normally; when it returns the new item is the last of the
\* list behind the items that were linked, in their order, it has visible = true,
\* scale = (1,1), ref = 1, removed = false and parent = scene, and exactly one
\* item_add signal about it was emitted, carrying (scene, item).
C10_AddAppends ==
    \A t \in Threads :
        frame[t].op = "add" =>
            /\ fault = "none"
            /\ pc[t] = "ret" =>
                LET item == frame[t].item
                IN /\ List = Append(frame[t].pre, item)
                   /\ visible[item] = TRUE
                   /\ scale[item] = <<1, 1>>
                   /\ ref[item] = 1
                   /\ removed[item] = FALSE
                   /\ parent[item] = frame[t].scene
                   /\ SignalsAbout("item_add", item) = 1
                   /\ SignalCount("item_add", frame[t].scene, item) = 1

\* An add has returned with items already in the list.
C10_Witness ==
    \E t \in Threads :
        /\ frame[t].op = "add" /\ pc[t] = "ret"
        /\ Len(frame[t].pre) >= 2
        /\ fault = "none"

\* The references to the item that threads took with addref and still hold.
HeldOn(i) == Sum([t \in Threads |-> hold[t][i]], Threads)

\* The reference the item was created with (ref = 1 in obs_scene_add) is
\* given up by the obs_sceneitem_release that ends obs_sceneitem_remove.
CreationRef(i) ==
    IF /\ removed[i]
       /\ ~\E t \in Threads : /\ frame[t].op = "remove" /\ frame[t].item = i
                              /\ pc[t] \in {"rm_unlock", "rm_release"}
    THEN 0 ELSE 1

\* C11: an item created with one reference, addref'd and released by any
\* threads without the scene's mutex, is destroyed exactly once and only by the
\* final release: its counter is the number of references not yet released, it
\* is freed exactly when that number is zero, and nobody is left to release a
\* freed item a second time.
C11_DestroyedByFinalRelease ==
    \A i \in Items :
        mem[i] # "unalloc" =>
            /\ ref[i] = CreationRef(i) + HeldOn(i)
            /\ mem[i] = "freed" <=> ref[i] = 0
            /\ mem[i] = "freed" => HeldOn(i) = 0 /\ CreationRef(i) = 0

\* Both ends of the race: an item was destroyed by the release that ends
\* remove, and another, already removed, lives on the other thread's reference.
C11_Witness ==
    /\ fault = "none"
    /\ \E i \in Items : mem[i] = "freed" /\ removed[i]
    /\ \E i \in Items :
        /\ mem[i] = "live" /\ removed[i] /\ CreationRef(i) = 0
        /\ hold[OtherThread][i] = 1 /\ ref[i] = 1

\* What an enumeration in progress has kept to: every item it handed to the
\* callback was not removed at that time, and an enumeration that was not
\* stopped by the callback has handed on the whole list it found, in order.
EnumSafe(t) ==
    frame[t].op = "forEach" =>
        /\ \A k \in 1..Len(frame[t].flags) : ~frame[t].flags[k]
        /\ (pc[t] = "ret" /\ frame[t].more) => frame[t].seen = frame[t].pre

C13_SaveLoadRoundTrip ==
    \A t \in Threads :
        (/\ frame[t].op = "load" /\ frame[t].recs = records
         /\ frame[t].pre = <<>> /\ pc[t] \in {"ld_item", "ret"}) =>
            /\ fault = "none"
            /\ pc[t] = "ret" =>
                /\ Len(List) = Len(original)
                /\ Views(List) = original

\* A scene of two items, of two sources, one of them invisible and neither
\* with the transform the other has, has come back from what was saved of it.
C13_Witness ==
    \E t \in Threads :
        /\ frame[t].op = "load" /\ frame[t].recs = records
        /\ frame[t].pre = <<>> /\ pc[t] = "ret"
        /\ Len(original) = 2
        /\ original[1].name # original[2].name
        /\ ~original[1].visible
        /\ original[1].rot # original[2].rot
        /\ original[1].pos # original[2].pos
        /\ original[1].origin # original[2].origin
        /\ original[2].scale # <<1, 1>>
        /\ fault = "none"

\* The names of the records of recs that resolve, in order.
RECURSIVE ResolvedNames(_)
ResolvedNames(recs) ==
    IF recs = <<>> THEN <<>>
    ELSE IF Resolves(recs[1].name)
    THEN <<recs[1].name>> \o ResolvedNames(Tail(recs))
    ELSE ResolvedNames(Tail(recs))

\* C14: a load does not fail, and when it returns the list holds exactly one
\* new item per record whose name resolves, in the order of the records, no
\* item that was linked before, and one warning was logged per record skipped.
C14_LoadReplacesItems ==
    \A t \in Threads :
        frame[t].op = "load" =>
            /\ fault = "none"
            /\ pc[t] = "ret" =>
                /\ [k \in 1..Len(List) |-> source[List[k]]] = ResolvedNames(frame[t].recs)
                /\ Range(List) \cap Range(frame[t].pre) = {}
                /\ \A i \in Range(frame[t].pre) : ~Linked(i)
                /\ frame[t].warned = Len(frame[t].recs) - Len(List)

\* Three records, the second of a source that is not there, were loaded into a
\* scene that had an item.
C14_Witness ==
    \E t \in Threads :
        /\ frame[t].op = "load" /\ pc[t] = "ret" /\ fault = "none"
        /\ Len(frame[t].pre) = 1
        /\ Len(frame[t].recs) = 3
        /\ ~Resolves(frame[t].recs[2].name)
        /\ Len(List) = 2

\* The places in the list l of the items whose source has the name.
Matches(l, name) == {k \in 1..Len(l) : source[l[k]] = name}
Least(S) == CHOOSE k \in S : \A j \in S : k <= j

\* What obs_scene_findsource returns.
Found(t) == frame[t].item

\* C15: findByName does not fail; it returns NULL when no linked item's source
\* has the name (an empty scene included) and otherwise the first item of the
\* list whose source has it; and no step of it changes the list, an item, a
\* reference count or the signals emitted.
C15_FindFirstMatch ==
    /\ [](\A t \in Threads :
            frame[t].op = "find" =>
                /\ fault = "none"
                /\ pc[t] = "ret" =>
                    LET l == frame[t].pre
                        m == Matches(l, frame[t].name)
                    IN /\ l = List
                       /\ Found(t) = IF m = {} THEN NULL ELSE l[Least(m)])
    /\ [][(\E t \in Threads : frame'[t].op = "find") =>
            UNCHANGED <<heap, signals, hold, ext>>]_vars

\* The name looked for is that of the second and of the third item of the list.
C15_Witness ==
    \E t \in Threads :
        /\ frame[t].op = "find" /\ pc[t] = "ret" /\ fault = "none"
        /\ Matches(frame[t].pre, frame[t].name) = {2, 3}
        /\ Found(t) = frame[t].pre[2]

\* The items of l whose source is not removed, in order.
RECURSIVE Kept(_)
Kept(l) ==
    IF l = <<>> THEN <<>>
    ELSE IF SourceRemoved(l[1]) THEN Kept(Tail(l))
    ELSE <<l[1]>> \o Kept(Tail(l))

\* C16: a render pass does not fail and holds the mutex from its first look
\* at the list to its last; when it returns, every item it found in the list
\* whose source is removed is out of the list, marked removed, with exactly one
\* item_remove signal; the others were drawn once each in list order, none of
\* them marked removed when drawn, and they are the list.
C16_RenderRemovesLazily ==
    \A t \in Threads :
        frame[t].op = "render" =>
            /\ fault = "none"
            /\ pc[t] \in {"rn_loop", "rn_unlock"} => mutex.owner = t /\ mutex.depth = 1
            /\ \A k \in 1..Len(frame[t].flags) : ~frame[t].flags[k]
            /\ pc[t] = "ret" =>
                /\ \A i \in Range(frame[t].pre) :
                    SourceRemoved(i) =>
                        /\ ~Linked(i)
                        /\ removed[i]
                        /\ SignalsAbout("item_remove", i) = 1
                /\ frame[t].seen = Kept(frame[t].pre)
                /\ List = frame[t].seen

\* A pass over three items removed the middle one and drew the others.
C16_Witness ==
    \E t \in Threads :
        /\ frame[t].op = "render" /\ pc[t] = "ret" /\ fault = "none"
        /\ Len(frame[t].pre) = 3
        /\ SourceRemoved(frame[t].pre[2])
        /\ Len(frame[t].seen) = 2

\* The step reads item->parent to find the scene: the first statement of
\* obs_sceneitem_remove (460) and of obs_sceneitem_setorder (523).
ReadsParent(t) == pc[t] = "idle" /\ pc'[t] \in {"rm_lock", "so_lock"}

\* Where a call is about to read or write first_item, next, prev or parent.
ListPoints ==
    {"add_link", "so_detach", "so_attach", "en_loop", "fd_loop", "rn_loop",
     "sv_loop", "ra_loop"}
AtList(t) ==
    \/ pc[t] \in ListPoints
    \/ pc[t] = "rm_body" /\ frame[t].scene # NULL

\* The step is one of thread t that reads or writes the list structure.
ListStep(t) ==
    \/ ReadsParent(t)
    \/ AtList(t) /\ <<pc[t], frame[t]>>' # <<pc[t], frame[t]>>

\* C17: every step of a call that reads or writes the head pointer or the
\* next, prev or parent field of an item is taken by the thread that holds the
\* scene's mutex, so that no two threads are at these fields at a time.
C17_ListAccessUnderLock ==
    [][\A t \in Threads : ListStep(t) => mutex.owner = t]_vars

\* C18: the remove-all step of destroy does not fail, and when the mutex is
\* about to be destroyed the list is empty, every item that was linked is
\* marked removed, has no parent and no neighbours if a reference keeps it
\* alive, and exactly one item_remove signal was emitted about it.
C18_DestroyEmptiesList ==
    \A t \in Threads :
        frame[t].op = "destroy" =>
            /\ fault = "none"
            /\ pc[t] \in {"ds_free", "ret"} =>
                /\ first_item = NULL
                /\ \A i \in Items : ~Linked(i)
                /\ \A i \in Range(frame[t].pre) :
                    /\ removed[i]
                    /\ Live(i) => parent[i] = NULL
                    /\ SignalsAbout("item_remove", i) = 1

\* A scene of two items was emptied, and a reference keeps one of them alive.
C18_Witness ==
    \E t \in Threads :
        /\ frame[t].op = "destroy" /\ pc[t] = "ds_free" /\ fault = "none"
        /\ Len(frame[t].pre) = 2
        /\ \E i \in Range(frame[t].pre) : Live(i) /\ HeldOn(i) = 1

\* Thread t is in setorder or remove of an item that was already removed, and
\* still alive, when the call began.
OnRemovedItem(t) ==
    LET item == frame[t].item
    IN /\ item # NULL /\ Live(item) /\ removed[item]
       /\ \/ frame[t].op = "setorder"
          \/ frame[t].op = "remove" /\ (pc[t] \in {"rm_lock", "rm_body"} \/ frame[t].early)

\* C19: no step of a setorder or a remove of an item that is removed but kept
\* alive by a reference fails or changes the list, the removed flag or the
\* parent of an item, or the signals emitted.
C19_RemovedItemIsInert ==
    [][(\E t \in Threads : OnRemovedItem(t)) =>
        UNCHANGED <<first_item, next, prev, parent, removed, signals, fault>>]_vars

\* C20: every item in the list is alive with a reference count of at least 1,
\* whatever the caller of add did with the reference add returned.
C20_LinkedItemIsAlive ==
    \A i \in Items : Linked(i) => mem[i] = "live" /\ ref[i] >= 1

\* Thread t is at pthread_mutex_lock of the second scene's mutex.
WantsInner(t) == pc[t] = "in_lock"

\* Thread t is at pthread_mutex_lock of the first scene's mutex.
WantsOuter(t) ==
    pc[t] \in {"add_lock", "rm_lock", "so_lock", "en_lock", "fd_lock", "rn_lock",
               "sv_lock", "ra_lock"}

\* C21: no thread is at the acquisition of one scene's mutex while it holds
\* the mutex of the other scene, also when an item of the scene that is
\* rendered has the other scene as its source.
C21_OneSceneLockAtATime ==
    \A t \in Threads :
        /\ WantsInner(t) => mutex.owner # t
        /\ WantsOuter(t) => inner_mutex.owner # t

\* C22: in an enumeration whose callback removes items of the scene, the one
\* it was given or one not yet reached, no destroyed item is read, the
\* callback never gets an item whose removed flag is set, no item is handed on
\* twice, and a walk that ran to the end has handed on every item still linked.
C22_EnumSurvivesCallbackRemove ==
    /\ fault = "none"
    /\ \A t \in Threads :
        frame[t].op = "forEach" =>
            /\ \A k \in 1..Len(frame[t].flags) : ~frame[t].flags[k]
            /\ NoDuplicates(frame[t].seen)
            /\ (pc[t] = "ret" /\ frame[t].more) =>
                   \A i \in Items : InScene(i) => i \in Range(frame[t].seen)

\* s is the first Len(s) elements of q.
IsPrefix(s, q) == Len(s) <= Len(q) /\ \A k \in 1..Len(s) : s[k] = q[k]

\* C23: an enumeration whose callback changes nothing hands on the items in
\* list order, each call made with the mutex held; once the callback has
\* answered false no further call is made; a walk never told to stop hands on
\* every item; and when it returns the mutex is free and every item's ref, the
\* list and the set of live items are what they were when it began.
C23_EnumFrame ==
    \A t \in Threads :
        frame[t].op = "forEach" =>
            /\ IsPrefix(frame[t].seen, frame[t].pre)
            /\ pc[t] \in {"en_loop", "en_call", "en_release", "en_unlock"}
                   => mutex.owner = t
            /\ ~frame[t].more => pc[t] \in {"en_release", "en_unlock", "ret"}
            /\ pc[t] = "ret" =>
                /\ mutex = Unlocked
                /\ frame[t].more => frame[t].seen = frame[t].pre
                /\ ref = frame[t].refs
                /\ List = frame[t].pre
                /\ \A i \in Range(frame[t].pre) : Live(i)
            /\ fault = "none"

\* A walk over two or more items, one of them with a reference held besides
\* the list's, has returned after the callback's answer false to the first.
C23_Witness ==
    /\ pc[MainThread] = "ret" /\ frame[MainThread].op = "forEach"
    /\ ~frame[MainThread].more
    /\ Len(frame[MainThread].seen) = 1
    /\ Len(frame[MainThread].pre) >= 2
    /\ \E i \in Range(frame[MainThread].pre) : ref[i] >= 2

\* The k-th signal is the item_add of the item it is about, or comes after it.
AddedBefore(k) ==
    signals[k].name = "item_remove" =>
        \E j \in 1..(k - 1) :
            signals[j].name = "item_add" /\ signals[j].item = signals[k].item

\* C24: while one thread adds items and others remove items and render, the
\* item_remove of an item is never emitted before its item_add, and an item is
\* not yet freed when its item_add is emitted.
C24_AddSignalledFirst ==
    /\ \A k \in 1..Len(signals) : AddedBefore(k)
    /\ \A t \in Threads :
        pc[t] = "add_signal" =>
            /\ Live(frame[t].item)
            /\ SignalsAbout("item_remove", frame[t].item) = 0
\* The reconnect threads that pthread_create has started and that have not
\* ended.
RunningReconnects == {r \in ReconnectThreads : reconnect[r] = "running"}

\* C25: in the CoreAudio source at most one reconnect thread runs at any
\* time, and the device state is never freed while a reconnect thread that
\* was started still runs.
C25_OneReconnectJoinedBeforeFree ==
    /\ Cardinality(RunningReconnects) <= 1
    /\ ca.mem = "freed" => RunningReconnects = {}

====
